---- MODULE Spec2Model ----
(***************************************************************************)
(* Model of high_pixel/main.c: a fixed-capacity array-backed binary        *)
(* min-heap of (offset, value) pairs and the single-pass selection of the  *)
(* highest pixel values that drives it.                                    *)
(*                                                                         *)
(* Two specifications share the variables:                                 *)
(*   Spec      a caller of the heap API: init_heap, then any sequence of   *)
(*             heap_min_push / heap_min_pop / heap_peek calls;             *)
(*   ScanSpec  run_test: init_heap, build_high_pixels one loop iteration   *)
(*             at a time, then the drain loop that compares the popped     *)
(*             values against the sorted image.                            *)
(***************************************************************************)
EXTENDS Integers, Sequences, FiniteSets, Bags

VARIABLES
    pc,        \* where the caller is: "new", "ready", "build", "drain", "done", "failed", "exit"
    heap,      \* the heap_t object: capacity, size, offsets[], values[], alloc
    op,        \* the heap function called last: "none", "init", "push", "pop", "peek"
    arg,       \* the arguments of that call
    ret,       \* the value that call returned
    image,     \* the image_t object: size_x, size_y, pixels (0-based)
    i,         \* build_high_pixels: loop index
    err,       \* build_high_pixels: err
    start,     \* run_test: index of *start in the sorted pixels
    drained    \* run_test: the values read from values[size] after each pop, in order

vars == <<pc, heap, op, arg, ret, image, i, err, start, drained>>

(***************************************************************************)
(* Bounds of the model and constants of the program.                       *)
(***************************************************************************)
MaxCap == 4              \* largest capacity a heap is created with
MaxVal == 2              \* pixel values range over 0..MaxVal
MaxN   == 6              \* largest pixel count of an image
MaxCallerN == 2          \* largest pixel count of an image scanned into a heap in use
MaxCallerCap == 2        \* largest capacity of a heap a caller fills before a scan

MAX_HEAP_CAPACITY == 50

UINT16_MAX == 2^16 - 1

Values == 0 .. MaxVal

\* A uint32_t is kept as its two 16-bit halves <<high, low>>, which keeps every
\* number of the model inside the integers the checker computes with.
U32(n) == <<n \div (UINT16_MAX + 1), n % (UINT16_MAX + 1)>>

\* offsets a caller of the heap API passes: a small one and 2^31, the first
\* uint32_t that does not fit the int32_t heap_min_pop returns
Offsets == {U32(1), <<2^15, 0>>}

\* capacities a caller asks init_heap for
Capacities == (0 .. MaxCap) \cup {MAX_HEAP_CAPACITY + 1}

\* what malloc leaves in fresh storage
Garbage == {0, MaxVal}

Min(a, b) == IF a < b THEN a ELSE b

\* conversion of a uint32_t to the int32_t a function returns
ToInt32(u) ==
    IF u[1] >= 2^15 THEN (u[1] - 2^16) * 2^16 + u[2] ELSE u[1] * 2^16 + u[2]

\* conversion of an int to uint16_t
ToUint16(n) == n % (UINT16_MAX + 1)

(***************************************************************************)
(* The heap.                                                               *)
(***************************************************************************)
\* a heap_t before init_heap
NoHeap ==
    [capacity |-> 0, size |-> 0, offsets |-> <<>>, values |-> <<>>, alloc |-> FALSE]

heap_check_valid(h) == h.alloc

\* init_heap: the result for each outcome of the two malloc calls
init_heap(h, capacity, offsets_ok, values_ok, g) ==
    IF capacity > MAX_HEAP_CAPACITY THEN [heap |-> h, ret |-> -1]
    ELSE IF ~offsets_ok THEN [heap |-> h, ret |-> -1]
    ELSE IF ~values_ok THEN [heap |-> h, ret |-> -1]
    ELSE [heap |-> [capacity |-> capacity,
                    size     |-> 0,
                    offsets  |-> [k \in 0 .. capacity - 1 |-> U32(0)],
                    values   |-> [k \in 0 .. capacity - 1 |-> g],
                    alloc    |-> TRUE],
          ret  |-> 0]

\* heap_full with the comparison off by one
heap_full_off_by_one(h) == ~heap_check_valid(h) \/ h.size > h.capacity

heap_full(h) == ~heap_check_valid(h) \/ h.size >= h.capacity

heap_empty(h) == ~heap_check_valid(h) \/ h.size = 0

\* heap_peek reading the last slot in use
heap_peek_last(h) == IF ~heap_empty(h) THEN h.values[h.size - 1] ELSE ToUint16(-1)

heap_peek(h) == IF ~heap_empty(h) THEN h.values[0] ELSE ToUint16(-1)

\* heap_min_child_for_parent with the comparison of the two children reversed
heap_larger_child_for_parent(h, parent) ==
    IF ~heap_check_valid(h) THEN -1
    ELSE LET left  == parent * 2 + 1
             right == (parent + 1) * 2
         IN  IF left >= h.size THEN -1
             ELSE IF right >= h.size THEN left
             ELSE IF h.values[left] > h.values[right] THEN left ELSE right

\* the index of the child of parent with the smaller value, -1 if it has none
heap_min_child_for_parent(h, parent) ==
    IF ~heap_check_valid(h) THEN -1
    ELSE LET left  == parent * 2 + 1
             right == (parent + 1) * 2
         IN  IF left >= h.size THEN -1
             ELSE IF right >= h.size THEN left
             ELSE IF h.values[left] < h.values[right] THEN left ELSE right

\* the comparison that ends the sift-up of heap_min_push
push_reached(parent_value, value) == parent_value < value

\* push_sift moving the values and leaving the offsets where they are
RECURSIVE push_sift_values_only(_, _, _)
push_sift_values_only(h, parent, value) ==
    IF parent > 0
    THEN LET child == parent
             up    == (parent - 1) \div 2
         IN  IF push_reached(h.values[up], value)
             THEN [heap |-> h, parent |-> child, steps |-> 1]
             ELSE LET r == push_sift_values_only(
                               [h EXCEPT !.values[child] = h.values[up]], up, value)
                  IN  [r EXCEPT !.steps = r.steps + 1]
    ELSE [heap |-> h, parent |-> parent, steps |-> 0]

\* the while loop of heap_min_push: moves parents down from slot parent;
\* steps counts the executions of the loop body
RECURSIVE push_sift(_, _, _)
push_sift(h, parent, value) ==
    IF parent > 0
    THEN LET child == parent
             up    == (parent - 1) \div 2
         IN  IF push_reached(h.values[up], value)
             THEN [heap |-> h, parent |-> child, steps |-> 1]
             ELSE LET r == push_sift([h EXCEPT !.values[child]  = h.values[up],
                                               !.offsets[child] = h.offsets[up]],
                                     up, value)
                  IN  [r EXCEPT !.steps = r.steps + 1]
    ELSE [heap |-> h, parent |-> parent, steps |-> 0]

\* heap_min_push with the fullness test made after the sift-up
heap_min_push_sift_first(h, offset, value) ==
    LET s == push_sift(h, h.size, value)
    IN  IF heap_full(h) THEN [heap |-> s.heap, ret |-> -1, steps |-> s.steps]
        ELSE [heap |-> [s.heap EXCEPT !.values[s.parent]  = value,
                                      !.offsets[s.parent] = offset,
                                      !.size = h.size + 1],
              ret  |-> 0, steps |-> s.steps]

heap_min_push(h, offset, value) ==
    IF heap_full(h) THEN [heap |-> h, ret |-> -1, steps |-> 0]
    ELSE LET s == push_sift(h, h.size, value)
         IN  [heap |-> [s.heap EXCEPT !.values[s.parent]  = value,
                                      !.offsets[s.parent] = offset,
                                      !.size = h.size + 1],
              ret  |-> 0, steps |-> s.steps]

\* the condition of the for loop of heap_min_pop
pop_continue(h, child, value) == child > 0 /\ value > h.values[child]

\* the for loop of heap_min_pop: moves children up from slot parent;
\* steps counts the executions of the loop body
RECURSIVE pop_sift(_, _, _)
pop_sift(h, parent, value) ==
    LET child == heap_min_child_for_parent(h, parent)
    IN  IF pop_continue(h, child, value)
        THEN LET r == pop_sift([h EXCEPT !.values[parent]  = h.values[child],
                                         !.offsets[parent] = h.offsets[child]],
                               child, value)
             IN  [r EXCEPT !.steps = r.steps + 1]
        ELSE [heap |-> h, parent |-> parent, steps |-> 0]

\* heap_min_pop that overwrites the root with the last entry and does not
\* keep the removed entry in the freed slot
heap_min_pop_no_swap(h) ==
    IF heap_empty(h) THEN [heap |-> h, ret |-> -1, steps |-> 0]
    ELSE LET size == h.size - 1
             h1   == [h EXCEPT !.size = size]
         IN  IF size = 0
             THEN [heap |-> h1, ret |-> ToInt32(h1.offsets[0]), steps |-> 0]
             ELSE LET value  == h1.values[size]
                      offset == h1.offsets[size]
                      h2 == [h1 EXCEPT !.values[0]  = value,
                                       !.offsets[0] = offset]
                      s  == pop_sift(h2, 0, value)
                      h3 == [s.heap EXCEPT !.values[s.parent]  = value,
                                           !.offsets[s.parent] = offset]
                  IN  [heap |-> h3, ret |-> ToInt32(h.offsets[0]), steps |-> s.steps]

heap_min_pop(h) ==
    IF heap_empty(h) THEN [heap |-> h, ret |-> -1, steps |-> 0]
    ELSE LET size == h.size - 1
             h1   == [h EXCEPT !.size = size]
         IN  IF size = 0
             THEN [heap |-> h1, ret |-> ToInt32(h1.offsets[0]), steps |-> 0]
             ELSE LET value  == h1.values[size]
                      offset == h1.offsets[size]
                      h2 == [h1 EXCEPT !.values[size]  = h1.values[0],
                                       !.values[0]     = value,
                                       !.offsets[size] = h1.offsets[0],
                                       !.offsets[0]    = offset]
                      s  == pop_sift(h2, 0, value)
                      h3 == [s.heap EXCEPT !.values[s.parent]  = value,
                                           !.offsets[s.parent] = offset]
                  IN  [heap |-> h3, ret |-> ToInt32(h3.offsets[size]), steps |-> s.steps]

(***************************************************************************)
(* A caller of the heap API.                                               *)
(***************************************************************************)
NoImage == [size_x |-> 0, size_y |-> 0, pixels |-> <<>>]

Init ==
    /\ pc = "new"
    /\ heap = NoHeap
    /\ op = "none"
    /\ arg = <<>>
    /\ ret = 0
    /\ image = NoImage
    /\ i = 0
    /\ err = 0
    /\ start = 0
    /\ drained = <<>>

ScanVarsUnchanged == UNCHANGED <<image, i, err, start, drained>>

InitHeap ==
    /\ pc = "new"
    /\ \E capacity \in Capacities, offsets_ok \in BOOLEAN, values_ok \in BOOLEAN, g \in Garbage :
         LET r == init_heap(heap, capacity, offsets_ok, values_ok, g)
         IN  /\ heap' = r.heap
             /\ op' = "init"
             /\ arg' = <<capacity>>
             /\ ret' = r.ret
             /\ pc' = IF r.ret = 0 THEN "ready" ELSE "new"
    /\ ScanVarsUnchanged

Push ==
    /\ pc = "ready"
    /\ \E offset \in Offsets, value \in Values :
         LET r == heap_min_push(heap, offset, value)
         IN  /\ heap' = r.heap
             /\ op' = "push"
             /\ arg' = <<offset, value>>
             /\ ret' = r.ret
    /\ UNCHANGED pc
    /\ ScanVarsUnchanged

Pop ==
    /\ pc = "ready"
    /\ LET r == heap_min_pop(heap)
       IN  /\ heap' = r.heap
           /\ op' = "pop"
           /\ arg' = <<>>
           /\ ret' = r.ret
    /\ UNCHANGED pc
    /\ ScanVarsUnchanged

Peek ==
    /\ pc = "ready"
    /\ op' = "peek"
    /\ arg' = <<>>
    /\ ret' = heap_peek(heap)
    /\ UNCHANGED <<pc, heap>>
    /\ ScanVarsUnchanged

Next == InitHeap \/ Push \/ Pop \/ Peek

Spec == Init /\ [][Next]_vars

(***************************************************************************)
(* run_test: the selection of the highest pixels and the drain that checks *)
(* it against the sorted image.                                            *)
(***************************************************************************)
\* the images build_high_pixels is given: one column of up to MaxN pixels of
\* any values
Images ==
    UNION { { [size_x |-> x, size_y |-> 1, pixels |-> px] :
                px \in [0 .. x - 1 -> Values] } : x \in 0 .. MaxN }

image_check_valid(img) == TRUE

\* uint32_t size = image->size_x * image->size_y
image_size(img) == img.size_x * img.size_y

\* evict_test with the comparison reversed
evict_test_reversed(h, pixel) == heap_full(h) /\ heap_peek(h) > pixel

\* evict_test with <= for <
evict_test_ties(h, pixel) == heap_full(h) /\ heap_peek(h) <= pixel

\* the test of build_high_pixels that evicts the minimum
evict_test(h, pixel) == heap_full(h) /\ heap_peek(h) < pixel

\* push_test without the test for a full heap
push_test_unguarded(h, e) == e >= 0

\* push_test with err > 0 for err >= 0
push_test_strict(h, e) == e > 0 /\ ~heap_full(h)

\* the test of build_high_pixels that inserts the pixel
push_test(h, e) == e >= 0 /\ ~heap_full(h)

\* one iteration of the for loop of build_high_pixels
build_iteration(h, img, idx, e) ==
    LET pixel  == img.pixels[idx]
        popped == evict_test(h, pixel)
        r1     == IF popped THEN heap_min_pop(h) ELSE [heap |-> h, ret |-> e]
        pushed == push_test(r1.heap, r1.ret)
        r2     == IF pushed THEN heap_min_push(r1.heap, U32(idx), pixel) ELSE r1
    IN  [heap |-> r2.heap, err |-> r2.ret, popped |-> popped, pushed |-> pushed]

\* build_continue with the last index left out
build_continue_short(img, idx, e) == idx + 1 < image_size(img) /\ e >= 0

\* the condition of the for loop of build_high_pixels
build_continue(img, idx, e) == idx < image_size(img) /\ e >= 0

cmp(a, b) == a - b

\* qsort of a 0-based array by cmp, as an insertion sort
RECURSIVE insert_sorted(_, _)
insert_sorted(sorted, x) ==
    IF sorted = <<>> THEN <<x>>
    ELSE IF cmp(x, Head(sorted)) <= 0 THEN <<x>> \o sorted
    ELSE <<Head(sorted)>> \o insert_sorted(Tail(sorted), x)

RECURSIVE qsort_upto(_, _)
qsort_upto(a, n) ==
    IF n = 0 THEN <<>> ELSE insert_sorted(qsort_upto(a, n - 1), a[n - 1])

\* the sorted pixels, 1-based
qsort(a, n) == qsort_upto(a, n)

ScanInit ==
    /\ pc = "new"
    /\ heap = NoHeap
    /\ op = "none"
    /\ arg = <<>>
    /\ ret = 0
    /\ image \in Images
    /\ i = 0
    /\ err = 0
    /\ start = 0
    /\ drained = <<>>

\* run_test up to the call of build_high_pixels
RunTestInit ==
    /\ pc = "new"
    /\ \E high_num \in Capacities, offsets_ok \in BOOLEAN, values_ok \in BOOLEAN, g \in Garbage :
         LET r == init_heap(heap, high_num, offsets_ok, values_ok, g)
         IN  /\ heap' = r.heap
             /\ op' = "init"
             /\ arg' = <<high_num>>
             /\ ret' = r.ret
             /\ pc' = IF r.ret /= 0 THEN "exit" ELSE "build"
    /\ i' = 0
    /\ err' = 0
    /\ UNCHANGED <<image, start, drained>>

BuildIter ==
    /\ pc = "build"
    /\ image_check_valid(image) /\ heap_check_valid(heap)
    /\ build_continue(image, i, err)
    /\ LET r == build_iteration(heap, image, i, err)
       IN  /\ heap' = r.heap
           /\ err' = r.err
           /\ op' = "iteration"
           /\ arg' = <<r.popped, r.pushed>>
           /\ ret' = r.err
    /\ i' = i + 1
    /\ UNCHANGED <<pc, image, start, drained>>

\* what the caller of a void function receives
Void == "void"

\* build_high_pixels returns: the loop has ended, and err goes out of scope
\* without being handed to the caller
BuildReturn ==
    /\ pc = "build"
    /\ ~build_continue(image, i, err)
    /\ pc' = "built"
    /\ op' = "build_high_pixels"
    /\ arg' = <<>>
    /\ ret' = Void
    /\ UNCHANGED <<heap, image, i, err, start, drained>>

\* run_test: qsort and the bounds of the comparison loop
RunTestSort ==
    /\ pc = "built"
    /\ LET size == image_size(image)
           off  == IF size > heap.capacity THEN heap.capacity ELSE size
       IN  start' = size - off
    /\ pc' = "drain"
    /\ drained' = <<>>
    /\ UNCHANGED <<heap, op, arg, ret, image, i, err>>

\* run_test: one iteration of the comparison loop
DrainStep ==
    /\ pc = "drain"
    /\ start /= image_size(image)
    /\ LET r      == heap_min_pop(heap)
           popped == r.heap.values[r.heap.size]
           sorted == qsort(image.pixels, image_size(image))
       IN  /\ heap' = r.heap
           /\ op' = "pop"
           /\ arg' = <<>>
           /\ ret' = r.ret
           /\ drained' = Append(drained, popped)
           /\ IF sorted[start + 1] /= popped
              THEN pc' = "failed" /\ start' = start
              ELSE pc' = pc /\ start' = start + 1
    /\ UNCHANGED <<image, i, err>>

RunTestEnd ==
    /\ pc = "drain"
    /\ start = image_size(image)
    /\ pc' = "done"
    /\ UNCHANGED <<heap, op, arg, ret, image, i, err, start, drained>>

ScanNext ==
    RunTestInit \/ BuildIter \/ BuildReturn \/ RunTestSort \/ DrainStep \/ RunTestEnd

ScanSpec == ScanInit /\ [][ScanNext]_vars

(***************************************************************************)
(* A caller that hands build_high_pixels a heap it has pushed entries to.  *)
(***************************************************************************)
\* the images this caller uses
CallerImages == {img \in Images : image_size(img) <= MaxCallerN}

CallerInit ==
    /\ pc = "new"
    /\ heap = NoHeap
    /\ op = "none"
    /\ arg = <<>>
    /\ ret = 0
    /\ image \in CallerImages
    /\ i = 0
    /\ err = 0
    /\ start = 0
    /\ drained = <<>>

\* the capacities this caller creates its heap with
CallerCapacities == (0 .. MaxCallerCap) \cup {MAX_HEAP_CAPACITY + 1}

\* the caller's init_heap
CallerInitHeap ==
    /\ pc = "new"
    /\ \E capacity \in CallerCapacities, offsets_ok \in BOOLEAN, values_ok \in BOOLEAN,
          g \in Garbage :
         LET r == init_heap(heap, capacity, offsets_ok, values_ok, g)
         IN  /\ heap' = r.heap
             /\ op' = "init"
             /\ arg' = <<capacity>>
             /\ ret' = r.ret
             /\ pc' = IF r.ret = 0 THEN "ready" ELSE "new"
    /\ ScanVarsUnchanged

\* the call of build_high_pixels: the validity tests and the loop's start
CallBuild ==
    /\ pc = "ready"
    /\ image_check_valid(image) /\ heap_check_valid(heap)
    /\ pc' = "build"
    /\ i' = 0
    /\ err' = 0
    /\ UNCHANGED <<heap, op, arg, ret, image, start, drained>>

CallerNext == CallerInitHeap \/ Push \/ CallBuild \/ BuildIter \/ BuildReturn

CallerSpec == CallerInit /\ [][CallerNext]_vars

(***************************************************************************)
(* Properties of the heap API, checked under Spec.                         *)
(***************************************************************************)
\* the slots in use
Slots(h) == 0 .. h.size - 1

\* the min-heap order over the slots in use
HeapOrder(h) ==
    \A k \in Slots(h) : \A c \in {2 * k + 1, 2 * k + 2} :
        c < h.size => h.values[k] <= h.values[c]

\* v is the least value stored
IsMinValue(h, v) ==
    /\ \E k \in Slots(h) : h.values[k] = v
    /\ \A k \in Slots(h) : v <= h.values[k]

\* C2: heap-order invariant. After any sequence of push and pop calls on a
\* freshly created heap, every slot in use holds a value <= the values of its
\* children 2i+1 and 2i+2 that are in use.
C2_HeapOrder == HeapOrder(heap)

\* a pop has left three or more entries, the root below both of its children
\* and the children different
C2_Witness ==
    /\ op = "pop"
    /\ heap.size >= 3
    /\ heap.values[0] < heap.values[1]
    /\ heap.values[0] < heap.values[2]
    /\ heap.values[1] /= heap.values[2]

\* C3: size bound. In every reachable state 0 <= size <= capacity, and no
\* push, pop or peek changes the capacity set by init_heap.
C3_SizeBound ==
    /\ [](0 <= heap.size /\ heap.size <= heap.capacity)
    /\ [][pc = "ready" => heap'.capacity = heap.capacity]_vars

\* a push on a full heap has been refused
C3_Witness ==
    /\ op = "push"
    /\ ret = -1
    /\ heap.capacity > 0
    /\ heap.size = heap.capacity

\* C4: pop-min correctness. On a non-empty heap heap_min_pop returns the
\* position of a stored entry whose value is the least value stored; the size
\* decreases by exactly one and the heap order still holds.
C4_PopMin ==
    [][(pc = "ready" /\ op' = "pop" /\ heap.size > 0)
         => /\ \E k \in Slots(heap) :
                 /\ ret' >= 0
                 /\ U32(ret') = heap.offsets[k]
                 /\ IsMinValue(heap, heap.values[k])
            /\ heap'.size = heap.size - 1
            /\ HeapOrder(heap')]_vars

\* C5: ascending drain. Popping until the heap is empty removes values in
\* non-decreasing order (values[size] after a pop is the value removed), and
\* the drain takes exactly size successful pops: each pop on a non-empty heap
\* succeeds and removes one entry, and the pop on the empty heap fails.
C5_AscendingDrain ==
    [][(pc = "ready" /\ op' = "pop")
         => /\ (heap.size > 0 => ret' >= 0 /\ heap'.size = heap.size - 1)
            /\ (heap.size = 0 => ret' < 0 /\ heap'.size = 0)
            /\ (op = "pop" /\ heap.size > 0
                  => heap'.values[heap'.size] >= heap.values[heap.size])]_vars

\* C7: construction validation. init_heap fails for a capacity of zero or
\* above MAX_HEAP_CAPACITY, and on success the heap has size 0 and the
\* capacity asked for.
C7_ConstructionValidation ==
    op = "init"
      => /\ (arg[1] = 0 \/ arg[1] > MAX_HEAP_CAPACITY => ret /= 0)
         /\ (ret = 0 => heap.size = 0 /\ heap.capacity = arg[1])

\* C8: atomic failure. A heap_min_push refused because the heap is full and a
\* heap_min_pop refused because the heap is empty leave size, values[] and
\* offsets[] as they were.
C8_AtomicFailure ==
    [][(pc = "ready" /\ ( (op' = "push" /\ ret' = -1)
                        \/ (op' = "pop" /\ heap.size = 0) ))
         => heap' = heap]_vars

\* a push has been refused on a full heap whose root and first child differ
C8_Witness ==
    /\ op = "push"
    /\ ret = -1
    /\ heap.size = heap.capacity
    /\ heap.size >= 3
    /\ heap.values[0] /= heap.values[1]

\* C12: peek. On a non-empty heap heap_peek returns values[0], the least value
\* stored, and changes nothing; on an empty heap it returns 65535.
C12_Peek ==
    /\ [](op = "peek"
            => /\ (heap.size > 0 => ret = heap.values[0] /\ IsMinValue(heap, ret))
               /\ (heap.size = 0 => ret = 65535))
    /\ [][op' = "peek" => heap' = heap]_vars

\* a peek has returned the minimum of a heap whose last slot holds more
C12_Witness ==
    /\ op = "peek"
    /\ heap.size >= 2
    /\ ret = heap.values[0]
    /\ heap.values[heap.size - 1] > ret

\* C9: error transitions. heap_min_push reports an error (a result other than
\* 0) exactly when size = capacity, heap_min_pop reports an error (a negative
\* result) exactly when size = 0; every other push adds one entry and every
\* other pop removes one.
C9_ErrorTransitions ==
    [][pc = "ready"
         => /\ (op' = "push"
                  => /\ (ret' /= 0 <=> heap.size = heap.capacity)
                     /\ (ret' = 0 => heap'.size = heap.size + 1))
            /\ (op' = "pop"
                  => /\ (ret' < 0 <=> heap.size = 0)
                     /\ (heap.size > 0 => heap'.size = heap.size - 1))]_vars

(***************************************************************************)
(* Properties of the selection, checked under ScanSpec.                    *)
(***************************************************************************)
N == image_size(image)

\* the bag of the entries of a sequence
BagOfSeq(q) ==
    LET vals == {q[k] : k \in DOMAIN q}
    IN  [v \in vals |-> Cardinality({k \in DOMAIN q : q[k] = v})]

\* the last n entries of the sorted pixels
TopSorted(n) == SubSeq(qsort(image.pixels, N), N - n + 1, N)

\* the positions the heap holds
Retained == {ToInt32(heap.offsets[k]) : k \in Slots(heap)}

\* C1: top-K correctness. After build_high_pixels on an empty heap of capacity
\* K, draining the heap by repeated heap_min_pop yields exactly the multiset
\* of the min(N, K) largest values of the input: the comparison of run_test
\* against the sorted pixels never fails, and the values drained are the last
\* min(N, K) entries of the sorted input.
C1_TopK ==
    /\ pc /= "failed"
    /\ pc = "done"
         => /\ Len(drained) = Min(N, heap.capacity)
            /\ BagOfSeq(drained) = BagOfSeq(TopSorted(Min(N, heap.capacity)))
            /\ heap.size = 0

\* a drain is complete that had to evict: more pixels than slots, and the
\* values drained are not all equal
C1_Witness ==
    /\ pc = "done"
    /\ heap.capacity >= 3
    /\ N > heap.capacity
    /\ \E a, b \in DOMAIN drained : drained[a] /= drained[b]
    /\ \E k \in 0 .. N - 1 : image.pixels[k] < drained[1]

\* C6: tie policy. After build_high_pixels no retained position p has a
\* non-retained position q < p holding the same value.
C6_EarliestWins ==
    pc = "built"
      => \A p \in Retained : \A q \in (0 .. N - 1) \ Retained :
            ~(image.pixels[q] = image.pixels[p] /\ q < p)

\* the heap and err of build_high_pixels before iteration n, on a fresh heap
\* of the capacity of h
RECURSIVE build_upto(_, _, _)
build_upto(h, img, n) ==
    IF n = 0
    THEN [heap |-> init_heap(NoHeap, h.capacity, TRUE, TRUE, 0).heap, err |-> 0]
    ELSE LET before == build_upto(h, img, n - 1)
         IN  IF build_continue(img, n - 1, before.err)
             THEN build_iteration(before.heap, img, n - 1, before.err)
             ELSE before

\* iteration q of the scan pushed position q
Inserted(q) ==
    LET before == build_upto(heap, image, q)
    IN  build_iteration(before.heap, image, q, before.err).pushed

\* C6, amended: a pixel that is not inserted when it is scanned keeps out every
\* later pixel of the same value: no retained position p has an earlier
\* position q of the same value that was dropped when scanned (an earlier q
\* that is not retained was inserted and evicted since); and an input whose
\* values are all equal retains its first min(N, K) positions.
C6_DroppedTiesStayOut ==
    pc = "built"
      => /\ \A p \in Retained : \A q \in (0 .. N - 1) \ Retained :
               (image.pixels[q] = image.pixels[p] /\ q < p) => Inserted(q)
         /\ (\A a, b \in 0 .. N - 1 : image.pixels[a] = image.pixels[b])
               => Retained = 0 .. Min(N, heap.capacity) - 1

\* the scan of more pixels than slots has dropped a pixel that tied a retained
\* earlier one
C6_Witness ==
    /\ pc = "built"
    /\ heap.capacity >= 2
    /\ N > heap.capacity
    /\ \E q \in (0 .. N - 1) \ Retained :
         /\ ~Inserted(q)
         /\ \E p \in Retained : p < q /\ image.pixels[p] = image.pixels[q]

\* C10: result size. After build_high_pixels on an empty heap of capacity K
\* the heap holds exactly min(N, K) entries.
C10_ResultSize == pc = "built" => heap.size = Min(N, heap.capacity)

\* the scan of more pixels than slots has ended with a full heap that no
\* longer holds position 0
C10_Witness ==
    /\ pc = "built"
    /\ heap.capacity >= 2
    /\ N > heap.capacity
    /\ heap.size = heap.capacity
    /\ 0 \notin Retained

\* C11: tie drop. In a scan iteration that finds the heap full and the pixel
\* <= every stored value (equal to the minimum in particular), neither pop nor
\* push is executed and the heap is left as it was.
C11_TieDrop ==
    [][(pc = "build" /\ i' = i + 1
          /\ heap.size >= heap.capacity
          /\ \A k \in Slots(heap) : image.pixels[i] <= heap.values[k])
         => arg' = <<FALSE, FALSE>> /\ heap' = heap]_vars

\* an iteration has dropped a pixel equal to the minimum of a full heap whose
\* values are not all the same
C11_Witness ==
    /\ pc = "build"
    /\ op = "iteration"
    /\ arg = <<FALSE, FALSE>>
    /\ heap.size = heap.capacity
    /\ heap.size >= 2
    /\ image.pixels[i - 1] = heap.values[0]
    /\ \E k \in Slots(heap) : heap.values[k] > heap.values[0]

\* C19: stored pairs mirror the input. At the end of every iteration of
\* build_high_pixels on a heap that started empty, every slot j in use holds
\* values[j] = pixels[offsets[j]], every stored position is an index already
\* scanned, and the stored positions are pairwise distinct.
C19_PairsMirrorInput ==
    pc \in {"build", "built"}
      => /\ \A j \in Slots(heap) :
               /\ ToInt32(heap.offsets[j]) \in 0 .. i - 1
               /\ heap.values[j] = image.pixels[ToInt32(heap.offsets[j])]
         /\ \A j, k \in Slots(heap) : heap.offsets[j] = heap.offsets[k] => j = k

\* an iteration has evicted and pushed, and the pair pushed has sifted to the
\* root of a heap of three or more entries with different values
C19_Witness ==
    /\ pc = "build"
    /\ op = "iteration"
    /\ arg = <<TRUE, TRUE>>
    /\ heap.size >= 3
    /\ heap.offsets[0] = U32(i - 1)
    /\ heap.values[0] = image.pixels[i - 1]
    /\ heap.values[heap.size - 1] > heap.values[0]

\* the sift-up of a push of v into h runs its loop body at most once per level
PushLoopBounded(h, v) == 2 ^ heap_min_push(h, U32(0), v).steps <= h.size + 1

\* the sift-down of a pop from h runs its loop body at most once per level
PopLoopBounded(h) ==
    LET steps == heap_min_pop(h).steps
    IN  steps = 0 \/ 2 ^ steps <= h.size - 1

\* the loops are bounded for a push of any value and for a pop on the heap as
\* it is
SiftLoopsBounded ==
    heap_check_valid(heap)
      => /\ \A v \in Values : ~heap_full(heap) => PushLoopBounded(heap, v)
         /\ PopLoopBounded(heap)

\* C14: termination in one pass. build_high_pixels visits the indices 0..N-1
\* in increasing order, each once, so that N - i falls with every iteration,
\* and has visited all N when it returns; the sift loops of every
\* heap_min_push and heap_min_pop that the scan and the drain call end after
\* at most one step per level of the heap.
C14_OnePass ==
    /\ [][(pc = "build" /\ pc' = "build") => (i < N /\ i' = i + 1)]_vars
    /\ [](pc = "build" => i <= N)
    /\ [](pc = "built" => i = N)
    /\ [][(pc = "build" /\ i' = i + 1)
            => LET after == IF arg'[1] THEN heap_min_pop(heap).heap ELSE heap
               IN  /\ arg'[1] => PopLoopBounded(heap)
                   /\ arg'[2] => PushLoopBounded(after, image.pixels[i])]_vars
    /\ [][(pc = "drain" /\ Len(drained') = Len(drained) + 1) => PopLoopBounded(heap)]_vars

\* a scan of three or more pixels has returned, and its last push sifted up
\* two levels
C14_Witness ==
    /\ pc = "built"
    /\ N >= 3
    /\ i = N
    /\ heap.size >= 4
    /\ U32(N - 1) = heap.offsets[0]

\* C17: popped slot. After every successful heap_min_pop the slot at the new
\* size holds the least value the heap held and the position returned, and
\* the size is one less; after the drain of run_test, which empties a heap of
\* n entries with n pops, values[0..n-1] is in non-increasing order.
C17_PoppedSlot ==
    /\ [][(pc = "drain" /\ Len(drained') = Len(drained) + 1 /\ heap.size > 0 /\ ret' >= 0)
            => /\ heap'.size = heap.size - 1
               /\ IsMinValue(heap, heap'.values[heap'.size])
               /\ heap'.offsets[heap'.size] = U32(ret')
               /\ \E k \in Slots(heap) :
                     /\ heap.offsets[k] = heap'.offsets[heap'.size]
                     /\ heap.values[k] = heap'.values[heap'.size]]_vars
    /\ [](pc = "done"
            => /\ heap.size = 0
               /\ \A a, b \in 0 .. Len(drained) - 1 :
                     a < b => heap.values[a] >= heap.values[b])

\* a drain of three or more pops is complete and has left the values of the
\* backing array highest first, the first above the last
C17_Witness ==
    /\ pc = "done"
    /\ op = "pop"
    /\ Len(drained) >= 3
    /\ Len(drained) < N
    /\ heap.values[0] > heap.values[Len(drained) - 1]

(***************************************************************************)
(* Properties of a scan into a heap in use, checked under CallerSpec.      *)
(***************************************************************************)
\* C15: pop return encoding. On every non-empty heap heap_min_pop returns a
\* value >= 0 that is the position stored at the root, and it returns a
\* negative value only on the empty heap; so an iteration of
\* build_high_pixels that evicts from a non-empty heap ends with err >= 0.
C15_PopEncoding ==
    /\ [](heap_check_valid(heap)
            => LET r == heap_min_pop(heap)
               IN  IF heap.size > 0
                   THEN r.ret >= 0 /\ U32(r.ret) = heap.offsets[0]
                   ELSE r.ret < 0)
    /\ [][(pc = "build" /\ i' = i + 1 /\ arg'[1] /\ heap.size > 0) => err' >= 0]_vars

\* every position the heap holds is below 2^31
SmallPositions(h) == \A k \in Slots(h) : ToInt32(h.offsets[k]) >= 0

\* C18: no failing heap call inside the scan. In every iteration of
\* build_high_pixels on a valid heap of capacity >= 1 whose positions are
\* below 2^31, heap_min_pop is called only on a non-empty heap and returns no
\* error, heap_min_push is called only on a heap that is not full and returns
\* no error, and an iteration that pops also pushes the current element.
C18_NoFailingCall ==
    [][(pc = "build" /\ i' = i + 1 /\ heap.capacity >= 1 /\ SmallPositions(heap)
          /\ err >= 0)
         => LET popped == arg'[1]
                pushed == arg'[2]
                after  == IF popped THEN heap_min_pop(heap).heap ELSE heap
            IN  /\ popped => heap.size > 0 /\ heap_min_pop(heap).ret >= 0 /\ pushed
                /\ pushed => /\ after.size < after.capacity
                             /\ heap_min_push(after, U32(i), image.pixels[i]).ret = 0
                             /\ heap'.size = after.size + 1
                /\ err' >= 0
                /\ SmallPositions(heap')]_vars

\* an iteration on a full heap that the caller filled has popped and pushed
C18_Witness ==
    /\ pc = "build"
    /\ op = "iteration"
    /\ arg = <<TRUE, TRUE>>
    /\ i = 1
    /\ err = 0
    /\ heap.capacity >= 2
    /\ heap.size = heap.capacity
    /\ SmallPositions(heap)
    /\ \E k \in Slots(heap) : heap.offsets[k] = U32(0) /\ heap.values[k] = image.pixels[0]

\* C20: monotone threshold. Every iteration of build_high_pixels that starts
\* with the heap full ends with the heap full and with a minimum (heap_peek)
\* >= the minimum at its start, and a value it evicts is strictly smaller than
\* the pixel inserted in its place.
C20_MonotoneThreshold ==
    [][(pc = "build" /\ i' = i + 1 /\ heap_full(heap))
         => /\ heap_full(heap')
            /\ heap_peek(heap') >= heap_peek(heap)
            /\ arg'[1] => /\ arg'[2]
                          /\ heap.values[0] < image.pixels[i]
                          /\ \E k \in Slots(heap') :
                                /\ heap'.offsets[k] = U32(i)
                                /\ heap'.values[k] = image.pixels[i]]_vars

\* C13: scan failure semantics. When a heap operation called by
\* build_high_pixels reports failure, no further heap operation is executed in
\* that iteration or a later one, and the caller receives the error.
C13_ScanFailure ==
    /\ [][(pc = "build" /\ i' = i + 1 /\ arg'[1] /\ heap_min_pop(heap).ret < 0)
            => ~arg'[2]]_vars
    /\ [][(pc = "build" /\ err < 0) => (pc' = "built" /\ heap' = heap)]_vars
    /\ [](pc = "built" /\ err < 0 => ret /= Void)

\* C13, the part on the rest of the scan alone
C13_ScanAborted ==
    /\ [][(pc = "build" /\ i' = i + 1 /\ arg'[1] /\ heap_min_pop(heap).ret < 0)
            => ~arg'[2]]_vars
    /\ [][(pc = "build" /\ err < 0) => (pc' = "built" /\ heap' = heap)]_vars

(***************************************************************************)
(* Properties of the stored pairs, checked under Spec.                     *)
(***************************************************************************)
\* the multiset of (position, value) pairs the heap holds
Pairs(h) == BagOfSeq([k \in Slots(h) |-> <<h.offsets[k], h.values[k]>>])

\* C16: pair integrity. A successful heap_min_push(p, v) adds exactly the pair
\* (p, v) to the multiset of stored (position, value) pairs; a heap_min_pop
\* on a non-empty heap removes exactly one pair and leaves the others paired
\* as they were, and when it reports success the pair removed has the
\* position returned.
C16_PairIntegrity ==
    [][pc = "ready"
         => /\ (op' = "push" /\ ret' = 0)
                  => Pairs(heap') = Pairs(heap) (+) SetToBag({<<arg'[1], arg'[2]>>})
            /\ (op' = "pop" /\ heap.size > 0)
                  => \E k \in Slots(heap) :
                       /\ Pairs(heap) = Pairs(heap')
                                          (+) SetToBag({<<heap.offsets[k], heap.values[k]>>})
                       /\ ret' >= 0 => U32(ret') = heap.offsets[k]]_vars

\* a push has sifted its pair from the third slot up to the root, past a pair
\* with another position and a larger value
C16_Witness ==
    /\ op = "push"
    /\ ret = 0
    /\ heap.size >= 3
    /\ heap.offsets[0] = arg[1]
    /\ heap.values[0] = arg[2]
    /\ heap.offsets[heap.size - 1] /= arg[1]
    /\ heap.values[heap.size - 1] > arg[2]

====
